---- MODULE Spec2Model ----
(***************************************************************************)
(* Prompt-And-Output-Separator: the separation engine of src/app/app.py    *)
(* (separate_prompt_output, analyze_with_llm, process_column) as a state   *)
(* machine.  A text is a sequence of one-character strings; a Python or    *)
(* JSON value is a record [t, v] whose tag t gives its type and whose v is *)
(* the characters of a string (<<>> for every other type).                 *)
(***************************************************************************)
EXTENDS Integers, Sequences, FiniteSets, TLC

(* ------------------------------ bounds --------------------------------- *)

\* longest text enumerated over the whole alphabet when a splitter may answer
MaxLen == 4
\* longest text enumerated over the whole alphabet on the no-splitter path
MaxFallbackLen == 7
\* most words of a text of the form "a a ... a"
MaxWords == 10
\* most words of a prompt or output string in a splitter response
MaxRespWords == 5
\* most rows of a column given to process_column
MaxRows == 2
\* longest text enumerated where the splitter may stay silent
MaxLiveLen == 3
\* most entries of the history log
MaxHistory == 3

(* ----------------------------- characters ------------------------------ *)

NL == "\n"
SP == " "
Alphabet == {"a", SP, NL}

\* str.split() and str.strip() without arguments work on whitespace
IsSpace(c) == c \in {SP, NL}

(* --------------------------- Python values ----------------------------- *)

PyNone == [t |-> "None", v |-> <<>>]
PyStr(s) == [t |-> "str", v |-> s]
\* a JSON number: any value that is neither a string nor null
PyNum == [t |-> "num", v |-> <<>>]
\* a key the JSON object does not have / a key whose value is null
JsonAbsent == [t |-> "absent", v |-> <<>>]
JsonNull == [t |-> "null", v |-> <<>>]

\* dict.get(key): None for a missing key, and null decodes to None
DictGet(field) ==
  IF field.t \in {"absent", "null"} THEN PyNone ELSE field

\* dict.get(key, default): the default only for a missing key
DictGetDefault(field, default) ==
  IF field.t = "absent" THEN default
  ELSE IF field.t = "null" THEN PyNone
  ELSE field

\* a + b: [exc, val]
PyAdd(a, b) ==
  IF a.t = "str" /\ b.t = "str" THEN [exc |-> "none", val |-> PyStr(a.v \o b.v)]
  ELSE IF a.t = "num" /\ b.t = "num" THEN [exc |-> "none", val |-> PyNum]
  ELSE [exc |-> "TypeError", val |-> PyNone]

(* --------------------------- str primitives ---------------------------- *)

\* s.split(): the maximal runs of non-whitespace, left to right
RECURSIVE SplitWsFrom(_, _, _, _)
SplitWsFrom(s, i, cur, acc) ==
  IF i > Len(s)
  THEN IF cur = <<>> THEN acc ELSE Append(acc, cur)
  ELSE IF IsSpace(s[i])
       THEN SplitWsFrom(s, i + 1, <<>>, IF cur = <<>> THEN acc ELSE Append(acc, cur))
       ELSE SplitWsFrom(s, i + 1, Append(cur, s[i]), acc)

SplitWs(s) == SplitWsFrom(s, 1, <<>>, <<>>)

\* s.find(sep, i): the lowest index >= i where sep occurs, 0 when there is none
RECURSIVE Find(_, _, _)
Find(s, sep, i) ==
  IF i + Len(sep) - 1 > Len(s) THEN 0
  ELSE IF SubSeq(s, i, i + Len(sep) - 1) = sep THEN i
  ELSE Find(s, sep, i + 1)

\* s.split(sep, 1): at most one split, at the first occurrence of sep
SplitOnce(s, sep) ==
  LET i == Find(s, sep, 1)
  IN  IF i = 0 THEN <<s>>
      ELSE <<SubSeq(s, 1, i - 1), SubSeq(s, i + Len(sep), Len(s))>>

RECURSIVE LStrip(_)
LStrip(s) ==
  IF s = <<>> THEN s
  ELSE IF IsSpace(Head(s)) THEN LStrip(Tail(s))
  ELSE s

RECURSIVE RStrip(_)
RStrip(s) ==
  IF s = <<>> THEN s
  ELSE IF IsSpace(s[Len(s)]) THEN RStrip(SubSeq(s, 1, Len(s) - 1))
  ELSE s

\* mutant: lstrip() where strip() was meant
Strip_LeftOnly(s) == LStrip(s)

\* s.strip()
Strip(s) == RStrip(LStrip(s))

(* --------------------------- count_text_stats -------------------------- *)

\* mutant: text.split(' ') where text.split() was meant
count_text_stats_SplitOnSpace(s) ==
  [words |-> 1 + Cardinality({i \in 1..Len(s) : s[i] = SP}), chars |-> Len(s)]

\* lines 26-29
count_text_stats(s) == [words |-> Len(SplitWs(s)), chars |-> Len(s)]

(* ------------------------------ results -------------------------------- *)

Triple(t, p, o) == [title |-> t, prompt |-> p, output |-> o]
NoneTriple == Triple(PyNone, PyNone, PyNone)
EmptyTriple == Triple(PyStr(<<>>), PyStr(<<>>), PyStr(<<>>))
UntitledConversation == PyStr(<<"Untitled Conversation">>)

\* what a function call gives: an exception that escapes it (exc # "none"), or
\* its return value, and the number of st.error warnings it emitted
Outcome(e, r, w) == [exc |-> e, ret |-> r, warns |-> w]

(* ------------------------- the HTTP exchange --------------------------- *)

\* What requests.post and the decoding of its answer can give:
\*   post_raises         requests.post raises (connection error, timeout)
\*   bad_status          a status code other than 200
\*   body_not_json       200, response.json() raises
\*   body_no_content     200, the body has no ['choices'][0]['message']['content']
\*   content_null        200, the content is null
\*   content_not_json    200, the content is a string json.loads rejects
\*   content_not_object  200, the content is JSON but not an object
\*   object              200, the content is a JSON object with these fields
Failure(k) == [kind |-> k, title |-> JsonAbsent, prompt |-> JsonAbsent, output |-> JsonAbsent]
ObjectResponse(t, p, o) == [kind |-> "object", title |-> t, prompt |-> p, output |-> o]
\* no exchange took place
NoResponse == Failure("no_call")

FailureKinds ==
  {"post_raises", "bad_status", "body_not_json", "body_no_content",
   "content_null", "content_not_json", "content_not_object"}

(* -------------------------- analyze_with_llm --------------------------- *)

\* the 0.9 of line 80 as the fraction GateNum / GateDen
GateNum == 9
GateDen == 10

\* mutant: a threshold of 0.5
GateRejects_Half(result_words, original_words) ==
  2 * result_words < original_words

\* result_words < original_words * 0.9; on integers the double product
\* original_words * 0.9 compares as the exact 9 * original_words / 10
GateRejects(result_words, original_words) ==
  GateDen * result_words < GateNum * original_words

\* mutant: the gate's split returns an empty title
LlmBasicSplit_EmptyTitle(text) ==
  LET parts == SplitOnce(text, <<NL, NL>>)
  IN  IF Len(parts) = 2
      THEN Triple(PyStr(<<>>), PyStr(Strip(parts[1])), PyStr(Strip(parts[2])))
      ELSE Triple(PyStr(<<>>), PyStr(Strip(text)), PyStr(<<>>))

\* lines 82-85: the basic split inside the integrity gate
LlmBasicSplit(text) ==
  LET parts == SplitOnce(text, <<NL, NL>>)
  IN  IF Len(parts) = 2
      THEN Triple(UntitledConversation, PyStr(Strip(parts[1])), PyStr(Strip(parts[2])))
      ELSE Triple(UntitledConversation, PyStr(Strip(text)), PyStr(<<>>))

\* lines 78-86, for a content that json.loads decoded to an object
CheckParsed(text, resp) ==
  LET original_words == Len(SplitWs(text))
      sum == PyAdd(DictGetDefault(resp.prompt, PyStr(<<>>)),
                   DictGetDefault(resp.output, PyStr(<<>>)))
  IN  IF sum.exc # "none" THEN Outcome(sum.exc, NoneTriple, 0)
      ELSE IF sum.val.t # "str" THEN Outcome("AttributeError", NoneTriple, 0)
      ELSE IF GateRejects(Len(SplitWs(sum.val.v)), original_words)
           THEN Outcome("none", LlmBasicSplit(text), 1)
           ELSE Outcome("none",
                        Triple(DictGet(resp.title), DictGet(resp.prompt), DictGet(resp.output)),
                        0)

\* lines 76-86: the body of the inner try
InnerTry(text, resp) ==
  CASE resp.kind = "content_null" -> Outcome("TypeError", NoneTriple, 0)
    [] resp.kind = "content_not_json" -> Outcome("JSONDecodeError", NoneTriple, 0)
    [] resp.kind = "content_not_object" -> Outcome("AttributeError", NoneTriple, 0)
    [] OTHER -> CheckParsed(text, resp)

\* line 87: except json.JSONDecodeError
InnerCatches(exc) == exc = "JSONDecodeError"

\* lines 75-89: the inner try with its handler
InnerTryExcept(text, resp) ==
  LET r == InnerTry(text, resp)
  IN  IF r.exc # "none" /\ InnerCatches(r.exc)
      THEN Outcome("none", NoneTriple, r.warns + 1)
      ELSE r

\* lines 36-93: the body of the outer try
OuterTry(text, resp) ==
  CASE resp.kind = "post_raises" -> Outcome("RequestException", NoneTriple, 0)
    [] resp.kind = "bad_status" -> Outcome("none", NoneTriple, 2)
    [] resp.kind = "body_not_json" -> Outcome("JSONDecodeError", NoneTriple, 0)
    [] resp.kind = "body_no_content" -> Outcome("KeyError", NoneTriple, 0)
    [] OTHER -> InnerTryExcept(text, resp)

\* mutant: except requests.RequestException
OuterCatches_RequestOnly(exc) == exc = "RequestException"

\* line 95: except Exception
OuterCatches(exc) == TRUE

\* lines 31-97; key is st.session_state.api_key
analyze_with_llm(key, text, resp) ==
  IF ~key THEN Outcome("none", NoneTriple, 1)
  ELSE LET r == OuterTry(text, resp)
       IN  IF r.exc # "none" /\ OuterCatches(r.exc)
           THEN Outcome("none", NoneTriple, r.warns + 1)
           ELSE r

\* line 32 passed: the call reaches requests.post
ReachesPost(key) == key

(* ------------------------ separate_prompt_output ----------------------- *)

\* s.rfind(sep): the highest index where sep occurs, 0 when there is none
RECURSIVE RFind(_, _, _)
RFind(s, sep, i) ==
  IF i < 1 THEN 0
  ELSE IF SubSeq(s, i, i + Len(sep) - 1) = sep THEN i
  ELSE RFind(s, sep, i - 1)

\* mutant: text.rsplit('\n\n', 1), a split at the last blank line
BasicSplit_LastBlank(text) ==
  LET i == RFind(text, <<NL, NL>>, Len(text) - 1)
  IN  IF i # 0
      THEN Triple(UntitledConversation, PyStr(Strip(SubSeq(text, 1, i - 1))),
                  PyStr(Strip(SubSeq(text, i + 2, Len(text)))))
      ELSE Triple(UntitledConversation, PyStr(Strip(text)), PyStr(<<>>))

\* lines 106-109: the heuristic fallback
BasicSplit(text) ==
  LET parts == SplitOnce(text, <<NL, NL>>)
  IN  IF Len(parts) = 2
      THEN Triple(UntitledConversation, PyStr(Strip(parts[1])), PyStr(Strip(parts[2])))
      ELSE Triple(UntitledConversation, PyStr(Strip(text)), PyStr(<<>>))

\* mutant: the key is looked at before the text
SeparateEntry_KeyFirst(key, text) ==
  IF key THEN "llm"
  ELSE IF text = <<>> THEN "empty"
  ELSE "fallback"

\* lines 100-102: where the call goes first
SeparateEntry(key, text) ==
  IF text = <<>> THEN "empty"
  ELSE IF key THEN "llm"
  ELSE "fallback"

\* mutant: the title is not looked at
AllNotNone_PromptOutputOnly(r) == r.prompt.t # "None" /\ r.output.t # "None"

\* line 104: all(v is not None for v in [title, prompt, output])
AllNotNone(r) == r.title.t # "None" /\ r.prompt.t # "None" /\ r.output.t # "None"

\* lines 103-109, once analyze_with_llm has given a
SeparateAfterLlm(text, a) ==
  IF a.exc # "none" THEN Outcome(a.exc, NoneTriple, a.warns)
  ELSE IF AllNotNone(a.ret) THEN Outcome("none", a.ret, a.warns)
  ELSE Outcome("none", BasicSplit(text), a.warns)

\* lines 99-109 as a function of the text, the key and the exchange's outcome
separate_prompt_output(key, text, resp) ==
  CASE SeparateEntry(key, text) = "empty" -> Outcome("none", EmptyTriple, 0)
    [] SeparateEntry(key, text) = "llm" -> SeparateAfterLlm(text, analyze_with_llm(key, text, resp))
    [] OTHER -> Outcome("none", BasicSplit(text), 0)

(* ---------------------------- process_column -------------------------- *)

\* a float NaN: what pandas holds for an empty cell of the column
PyNaN == [t |-> "nan", v |-> <<>>]

\* line 114: str(item)
Str(item) == IF item.t = "str" THEN item.v ELSE <<"n", "a", "n">>

(* ------------------------------- inputs -------------------------------- *)

AllTexts(n) == UNION {[1..k -> Alphabet] : k \in 0..n}

\* "a a ... a", k words
RECURSIVE Words(_)
Words(k) ==
  IF k = 0 THEN <<>>
  ELSE IF k = 1 THEN <<"a">>
  ELSE Words(k - 1) \o <<SP, "a">>

Texts == AllTexts(MaxLen) \cup {Words(k) : k \in 1..MaxWords}
FallbackTexts == AllTexts(MaxFallbackLen)

\* the strings a response holds: k words, with or without a trailing space
RespStrings ==
  {Words(k) : k \in 0..MaxRespWords} \cup {Words(k) \o <<SP>> : k \in 0..MaxRespWords}
FieldValues == {JsonAbsent, JsonNull, PyNum} \cup {PyStr(s) : s \in RespStrings}
TitleValues == {JsonAbsent, JsonNull, PyNum, PyStr(<<"T">>)}

Responses ==
  {Failure(k) : k \in FailureKinds}
    \cup {ObjectResponse(t, p, o) : t \in TitleValues, p \in FieldValues, o \in FieldValues}

(* -------------------------------- state -------------------------------- *)

VARIABLES
  api_key,         \* st.session_state.api_key is set
  pc,              \* "idle", "request", "returned", "raised", "loop", "batch_done"
  caller,          \* who called separate_prompt_output: "direct", "batch", "button", "file"
  text,            \* the argument of the running separate_prompt_output call
  response,        \* the outcome of the call's HTTP exchange, NoResponse before it
  result,          \* the triple the call returned
  raised,          \* the exception that escaped the call, "none" when none did
  calls,           \* requests.post calls since the running operation began
  warnings,        \* st.error calls since the running operation began
  column,          \* the argument of the running process_column call
  processed_data,  \* its rows so far
  served,          \* the HTTP outcome of each row so far
  history,         \* st.session_state.history
  st_title,        \* st.session_state.title
  st_prompt,       \* st.session_state.prompt
  st_output,       \* st.session_state.output
  stats_arg,       \* the argument of the last count_text_stats call
  stats_ret        \* what that call returned

engineVars == <<pc, caller, text, response, result, raised, calls, warnings>>
batchVars == <<column, processed_data, served>>
sessionVars == <<history, st_title, st_prompt, st_output>>
statsVars == <<stats_arg, stats_ret>>
vars == <<api_key, pc, caller, text, response, result, raised, calls, warnings,
          column, processed_data, served, history, st_title, st_prompt, st_output,
          stats_arg, stats_ret>>

\* lines 13-24
Init ==
  /\ api_key = FALSE
  /\ pc = "idle"
  /\ caller = "direct"
  /\ text = <<>>
  /\ response = NoResponse
  /\ result = NoneTriple
  /\ raised = "none"
  /\ calls = 0
  /\ warnings = 0
  /\ column = <<>>
  /\ processed_data = <<>>
  /\ served = <<>>
  /\ history = <<>>
  /\ st_title = PyStr(<<>>)
  /\ st_prompt = PyStr(<<>>)
  /\ st_output = PyStr(<<>>)
  /\ stats_arg = <<>>
  /\ stats_ret = [called |-> FALSE, words |-> 0, chars |-> 0]

\* lines 121-123: a key typed into the sidebar
SidebarSetKey ==
  /\ pc = "idle"
  /\ ~api_key
  /\ api_key' = TRUE
  /\ UNCHANGED <<engineVars, batchVars, sessionVars, statsVars>>

\* mutant: the call itself stores its result in st.session_state
Finish_WritesSession(o, c0, w0) ==
  /\ pc' = IF o.exc = "none" THEN "returned" ELSE "raised"
  /\ raised' = o.exc
  /\ result' = o.ret
  /\ calls' = c0
  /\ warnings' = w0 + o.warns
  /\ st_title' = o.ret.title
  /\ st_prompt' = o.ret.prompt
  /\ st_output' = o.ret.output
  /\ UNCHANGED history

\* the call ends with outcome o, after c0 calls and w0 warnings before it
Finish(o, c0, w0) ==
  /\ pc' = IF o.exc = "none" THEN "returned" ELSE "raised"
  /\ raised' = o.exc
  /\ result' = o.ret
  /\ calls' = c0
  /\ warnings' = w0 + o.warns
  /\ UNCHANGED sessionVars

\* mutant: a second request for the title, two requests.post per call
Enter_PostsTwice(t, c0, w0) ==
  /\ text' = t
  /\ response' = NoResponse
  /\ CASE SeparateEntry(api_key, t) = "empty" -> Finish(Outcome("none", EmptyTriple, 0), c0, w0)
       [] SeparateEntry(api_key, t) = "llm" ->
            IF ReachesPost(api_key)
            THEN /\ pc' = "request"
                 /\ raised' = "none"
                 /\ result' = NoneTriple
                 /\ calls' = c0 + 2
                 /\ warnings' = w0
                 /\ UNCHANGED sessionVars
            ELSE Finish(SeparateAfterLlm(t, analyze_with_llm(api_key, t, NoResponse)), c0, w0)
       [] OTHER -> Finish(Outcome("none", BasicSplit(t), 0), c0, w0)

\* lines 99-103 and 31-71: separate_prompt_output(t) up to its return or up to
\* requests.post
Enter(t, c0, w0) ==
  /\ text' = t
  /\ response' = NoResponse
  /\ CASE SeparateEntry(api_key, t) = "empty" -> Finish(Outcome("none", EmptyTriple, 0), c0, w0)
       [] SeparateEntry(api_key, t) = "llm" ->
            IF ReachesPost(api_key)
            THEN /\ pc' = "request"
                 /\ raised' = "none"
                 /\ result' = NoneTriple
                 /\ calls' = c0 + 1
                 /\ warnings' = w0
                 /\ UNCHANGED sessionVars
            ELSE Finish(SeparateAfterLlm(t, analyze_with_llm(api_key, t, NoResponse)), c0, w0)
       [] OTHER -> Finish(Outcome("none", BasicSplit(t), 0), c0, w0)

\* separate_prompt_output(t) called on its own
DirectCall(T) ==
  /\ pc = "idle"
  /\ \E t \in T : Enter(t, 0, 0)
  /\ caller' = "direct"
  /\ UNCHANGED <<api_key, batchVars, statsVars>>

\* lines 67-109: requests.post ends with outcome r and the call runs to its end
Respond(R) ==
  /\ pc = "request"
  /\ \E r \in R :
       /\ response' = r
       /\ Finish(SeparateAfterLlm(text, analyze_with_llm(api_key, text, r)), calls, warnings)
  /\ UNCHANGED <<api_key, caller, text, batchVars, statsVars>>

\* the caller has taken the result of a call made on its own
Return ==
  /\ pc = "returned"
  /\ caller = "direct"
  /\ pc' = "idle"
  /\ text' = <<>>
  /\ response' = NoResponse
  /\ result' = NoneTriple
  /\ calls' = 0
  /\ warnings' = 0
  /\ UNCHANGED <<api_key, caller, raised, batchVars, sessionVars, statsVars>>

Next ==
  \/ SidebarSetKey
  \/ DirectCall(Texts)
  \/ Respond(Responses)
  \/ Return

Spec == Init /\ [][Next]_vars

\* the engine with no key ever configured, on longer texts
NextFallback ==
  \/ DirectCall(FallbackTexts)
  \/ Return

SpecFallback == Init /\ [][NextFallback]_vars

(* ------------------------ process_column as steps ---------------------- *)

BatchItems ==
  {PyStr(<<>>), PyStr(<<"a", NL, NL, "a">>), PyStr(<<"a", SP, "a">>), PyNaN}

Columns == UNION {[1..n -> BatchItems] : n \in 0..MaxRows}

BatchResponses ==
  {Failure("post_raises"), Failure("content_not_json"),
   ObjectResponse(PyStr(<<"T">>), PyStr(<<"a", SP>>), PyStr(<<"a">>)),
   ObjectResponse(PyStr(<<"T">>), PyStr(<<>>), PyStr(<<>>)),
   ObjectResponse(PyStr(<<"T">>), PyStr(<<"a">>), JsonNull)}

\* lines 111-112: process_column(c) begins
ProcessCsv(C) ==
  /\ pc = "idle"
  /\ \E c \in C : column' = c
  /\ processed_data' = <<>>
  /\ served' = <<>>
  /\ caller' = "batch"
  /\ pc' = "loop"
  /\ calls' = 0
  /\ warnings' = 0
  /\ UNCHANGED <<api_key, text, response, result, raised, sessionVars, statsVars>>

\* lines 113-114: the loop takes the next item and calls separate_prompt_output
LoopCall ==
  /\ pc = "loop"
  /\ Len(processed_data) < Len(column)
  /\ Enter(Str(column[Len(processed_data) + 1]), calls, warnings)
  /\ UNCHANGED <<api_key, caller, batchVars, statsVars>>

\* mutant: the row is put first
LoopAppend_Prepend ==
  /\ pc = "returned"
  /\ caller = "batch"
  /\ processed_data' = <<result>> \o processed_data
  /\ served' = Append(served, response)
  /\ pc' = "loop"
  /\ UNCHANGED <<api_key, caller, text, response, result, raised, calls, warnings, column,
               sessionVars, statsVars>>

\* line 115: the row of the call that returned is appended
LoopAppend ==
  /\ pc = "returned"
  /\ caller = "batch"
  /\ processed_data' = Append(processed_data, result)
  /\ served' = Append(served, response)
  /\ pc' = "loop"
  /\ UNCHANGED <<api_key, caller, text, response, result, raised, calls, warnings, column,
               sessionVars, statsVars>>

\* line 116: the column is exhausted, the rows become the returned frame
LoopEnd ==
  /\ pc = "loop"
  /\ Len(processed_data) = Len(column)
  /\ pc' = "batch_done"
  /\ UNCHANGED <<api_key, caller, text, response, result, raised, calls, warnings, batchVars,
               sessionVars, statsVars>>

\* the caller has taken the frame
BatchReturn ==
  /\ pc = "batch_done"
  /\ pc' = "idle"
  /\ caller' = "direct"
  /\ text' = <<>>
  /\ response' = NoResponse
  /\ result' = NoneTriple
  /\ calls' = 0
  /\ warnings' = 0
  /\ column' = <<>>
  /\ processed_data' = <<>>
  /\ served' = <<>>
  /\ UNCHANGED <<api_key, raised, sessionVars, statsVars>>

NextBatch ==
  \/ SidebarSetKey
  \/ ProcessCsv(Columns)
  \/ LoopCall
  \/ Respond(BatchResponses)
  \/ LoopAppend
  \/ LoopEnd
  \/ BatchReturn

SpecBatch == Init /\ [][NextBatch]_vars

(* ----------------------- a splitter that may stay silent --------------- *)

LiveTexts == AllTexts(MaxLiveLen)

NextLive ==
  \/ SidebarSetKey
  \/ DirectCall(LiveTexts)
  \/ Respond(BatchResponses)
  \/ Return

\* The interpreter runs the program's own steps: a call that has its result
\* returns it.  requests.post (lines 67-71) is given no timeout, so nothing
\* makes the exchange end: Respond is the splitter's step and has no fairness.
SpecLive == Init /\ [][NextLive]_vars /\ WF_vars(Return)

(* ------------------------- the page's handlers ------------------------- *)

SessionTexts == {<<>>, <<"a">>, <<"a", NL, NL, "a">>}

SessionResponses ==
  {Failure("post_raises"),
   ObjectResponse(PyStr(<<"T">>), PyStr(<<"a">>), PyStr(<<>>)),
   ObjectResponse(JsonAbsent, PyStr(<<"a">>), PyStr(<<>>))}

SessionColumns ==
  {<<PyStr(<<"a">>)>>, <<PyStr(<<>>), PyStr(<<"a", NL, NL, "a">>)>>}

\* lines 143-145: the Process button with a non-empty input_text
ProcessButton(T) ==
  /\ pc = "idle"
  /\ Len(history) < MaxHistory
  /\ \E t \in T \ {<<>>} : Enter(t, 0, 0)
  /\ caller' = "button"
  /\ UNCHANGED <<api_key, batchVars, statsVars>>

\* lines 194-197: the Process Text File button, whatever the file holds
ProcessTextFile(T) ==
  /\ pc = "idle"
  /\ Len(history) < MaxHistory
  /\ \E t \in T : Enter(t, 0, 0)
  /\ caller' = "file"
  /\ UNCHANGED <<api_key, batchVars, statsVars>>

\* lines 146-149 and 198-201: the handler stores the result and logs the text
StoreResult ==
  /\ pc = "returned"
  /\ caller \in {"button", "file"}
  /\ st_title' = result.title
  /\ st_prompt' = result.prompt
  /\ st_output' = result.output
  /\ history' = Append(history, text)
  /\ pc' = "idle"
  /\ caller' = "direct"
  /\ text' = <<>>
  /\ response' = NoResponse
  /\ result' = NoneTriple
  /\ calls' = 0
  /\ warnings' = 0
  /\ UNCHANGED <<api_key, raised, batchVars, statsVars>>

\* lines 209-212: the Clear History button
ClearHistory ==
  /\ pc = "idle"
  /\ history # <<>>
  /\ history' = <<>>
  /\ UNCHANGED <<api_key, engineVars, batchVars, st_title, st_prompt, st_output, statsVars>>

NextSession ==
  \/ SidebarSetKey
  \/ ProcessButton(SessionTexts)
  \/ ProcessTextFile(SessionTexts)
  \/ Respond(SessionResponses)
  \/ StoreResult
  \/ ClearHistory
  \/ ProcessCsv(SessionColumns)
  \/ LoopCall
  \/ LoopAppend
  \/ LoopEnd
  \/ BatchReturn

SpecSession == Init /\ [][NextSession]_vars

(* ------------------------ count_text_stats called ---------------------- *)

\* lines 26-29: count_text_stats(t) is called and returns
CountTextStats(T) ==
  /\ pc = "idle"
  /\ ~stats_ret.called
  /\ \E t \in T :
       /\ stats_arg' = t
       /\ stats_ret' = [called |-> TRUE, words |-> count_text_stats(t).words,
                        chars |-> count_text_stats(t).chars]
  /\ UNCHANGED <<api_key, engineVars, batchVars, sessionVars>>

\* lines 156-157: the caller has taken the counts
StatsReturn ==
  /\ stats_ret.called
  /\ stats_arg' = <<>>
  /\ stats_ret' = [called |-> FALSE, words |-> 0, chars |-> 0]
  /\ UNCHANGED <<api_key, engineVars, batchVars, sessionVars>>

NextStats ==
  \/ CountTextStats(FallbackTexts)
  \/ StatsReturn

SpecStats == Init /\ [][NextStats]_vars

(* ----------------- the specification's notions, stated ---------------- *)

\* wordcount: the number of maximal runs of non-whitespace characters
WordCount(s) ==
  Cardinality({i \in 1..Len(s) : ~IsSpace(s[i]) /\ (i = 1 \/ IsSpace(s[i - 1]))})

\* trim: s without its leading and trailing whitespace
Trim(s) ==
  LET ns == {i \in 1..Len(s) : ~IsSpace(s[i])}
  IN  IF ns = {} THEN <<>>
      ELSE SubSeq(s, CHOOSE i \in ns : \A j \in ns : i <= j,
                     CHOOSE i \in ns : \A j \in ns : j <= i)

\* a blank line: two consecutive newline characters, at i and i + 1
BlankLineAt(s, i) == i >= 1 /\ i < Len(s) /\ s[i] = NL /\ s[i + 1] = NL
HasBlankLine(s) == \E i \in 1..Len(s) : BlankLineAt(s, i)
FirstBlankLine(s) ==
  CHOOSE i \in 1..Len(s) : BlankLineAt(s, i) /\ \A j \in 1..(i - 1) : ~BlankLineAt(s, j)

\* step 3 of the algorithm: the heuristic fallback result for a text
HeuristicFallback(s) ==
  IF HasBlankLine(s)
  THEN [title |-> PyStr(<<"Untitled Conversation">>),
        prompt |-> PyStr(Trim(SubSeq(s, 1, FirstBlankLine(s) - 1))),
        output |-> PyStr(Trim(SubSeq(s, FirstBlankLine(s) + 2, Len(s))))]
  ELSE [title |-> PyStr(<<"Untitled Conversation">>),
        prompt |-> PyStr(Trim(s)),
        output |-> PyStr(<<>>)]

\* a separate call has ended, by a return or by an exception
CallEnded == pc \in {"returned", "raised"}

\* the splitter answered with an object whose three fields are strings
StringResponse ==
  /\ response.kind = "object"
  /\ response.title.t = "str"
  /\ response.prompt.t = "str"
  /\ response.output.t = "str"

\* wordcount(prompt) + wordcount(output) of the splitter's answer
RecoveredWords == WordCount(response.prompt.v) + WordCount(response.output.v)

\* recovered_words < 0.9 * original_words
BelowRetention == 10 * RecoveredWords < 9 * WordCount(text)

\* at least one of title, prompt, output is null or absent
MissingField ==
  /\ response.kind = "object"
  /\ \/ response.title.t \in {"absent", "null"}
     \/ response.prompt.t \in {"absent", "null"}
     \/ response.output.t \in {"absent", "null"}

AllStrings(r) == r.title.t = "str" /\ r.prompt.t = "str" /\ r.output.t = "str"

(* ------------------------------- claims -------------------------------- *)

\* C1: a separate call on the empty text returns ("", "", "") whether or not a
\* key is configured, and makes no outbound call to the splitter.
C1_EmptyText ==
  (pc \in {"request", "returned", "raised"} /\ text = <<>>) =>
    /\ pc = "returned"
    /\ result = [title |-> PyStr(<<>>), prompt |-> PyStr(<<>>), output |-> PyStr(<<>>)]
    /\ calls = 0
    /\ response = NoResponse

\* C1 witness: the empty text was separated with a key configured
C1_Witness == pc = "returned" /\ text = <<>> /\ api_key /\ caller = "direct"

\* C2: with no splitter, a non-empty text gives ("Untitled Conversation",
\* trim(before the first blank line), trim(everything after it)), or
\* ("Untitled Conversation", trim(text), "") when it has no blank line.
C2_NoSplitterFallback ==
  (CallEnded /\ ~api_key /\ text # <<>>) =>
    /\ pc = "returned"
    /\ result = HeuristicFallback(text)
    /\ (~HasBlankLine(text) => result.output = PyStr(<<>>) /\ result.prompt = PyStr(Trim(text)))

\* C2 witness: "a\n\na\n\na" was split at its first blank line only
C2_Witness ==
  /\ pc = "returned"
  /\ ~api_key
  /\ text = <<"a", NL, NL, "a", NL, NL, "a">>
  /\ result.prompt = PyStr(<<"a">>)
  /\ result.output = PyStr(<<"a", NL, NL, "a">>)

\* C3: a response of three strings whose prompt and output hold fewer than 90%
\* of the text's words is discarded: the call returns the heuristic fallback
\* result, not the splitter's prompt and output.
C3_GateRejects ==
  (CallEnded /\ StringResponse /\ BelowRetention) =>
    /\ pc = "returned"
    /\ result = HeuristicFallback(text)
    /\ ~(result.prompt = response.prompt /\ result.output = response.output)

\* C3 witness: a ten-word text answered with two words was rejected
C3_Witness ==
  /\ pc = "returned"
  /\ StringResponse
  /\ BelowRetention
  /\ WordCount(text) = 10
  /\ RecoveredWords = 2
  /\ warnings = 1

\* C4: a response of three strings whose prompt and output hold at least 90% of
\* the text's words, exactly 90% included, is accepted and returned as it is.
C4_GateAccepts ==
  (CallEnded /\ StringResponse /\ ~BelowRetention) =>
    /\ pc = "returned"
    /\ result = [title |-> response.title, prompt |-> response.prompt,
                 output |-> response.output]

\* C5: a response with a null or absent title, prompt or output is rejected
\* whole: the call returns the heuristic fallback result and no None field.
C5_MissingFieldRejected ==
  (CallEnded /\ MissingField) =>
    /\ pc = "returned"
    /\ result = HeuristicFallback(text)
    /\ result.title.t # "None" /\ result.prompt.t # "None" /\ result.output.t # "None"

\* C5 witness: only the title is missing, prompt and output keep every word
C5_Witness ==
  /\ pc = "returned"
  /\ response.kind = "object"
  /\ response.title.t \in {"absent", "null"}
  /\ response.prompt.t = "str"
  /\ response.output.t = "str"
  /\ WordCount(response.prompt.v \o response.output.v) = WordCount(text)
  /\ WordCount(text) >= 2

\* C6: no exception escapes separate, and after a failure of the splitter
\* (no key, transport exception, bad status, unparsable or misshapen body,
\* integrity-gate rejection) a non-empty text gets the heuristic fallback result.
C6_NeverRaises ==
  /\ pc # "raised"
  /\ raised = "none"
  /\ (pc = "returned" /\ text # <<>>
        /\ (response.kind \in FailureKinds \cup {"no_call"} \/ (StringResponse /\ BelowRetention)))
       => result = HeuristicFallback(text)

\* C6 witness: a null content (a TypeError inside the inner try) ended in the fallback
C6_Witness ==
  /\ pc = "returned"
  /\ response.kind = "content_null"
  /\ HasBlankLine(text)
  /\ result.output # PyStr(<<>>)

\* C7: process_column gives one row per item, in the items' order, row i being
\* what separate gives for item i with that item's own splitter outcome; no
\* failure or rejection on one item stops the loop or changes another row.
C7_BatchRows ==
  /\ pc # "raised"
  /\ Len(processed_data) <= Len(column)
  /\ Len(served) = Len(processed_data)
  /\ \A i \in 1..Len(processed_data) :
       processed_data[i] = separate_prompt_output(api_key, Str(column[i]), served[i]).ret
  /\ pc = "batch_done" => Len(processed_data) = Len(column)
  /\ (pc = "batch_done" /\ ~api_key /\ column = <<PyStr(<<>>), PyStr(<<"a", NL, NL, "a">>)>>)
       => processed_data =
            << [title |-> PyStr(<<>>), prompt |-> PyStr(<<>>), output |-> PyStr(<<>>)],
               [title |-> PyStr(<<"Untitled Conversation">>), prompt |-> PyStr(<<"a">>),
                output |-> PyStr(<<"a">>)] >>

\* C7 witness: the first item's exchange failed, the second item's answer was accepted
C7_Witness ==
  /\ pc = "batch_done"
  /\ Len(column) = 2
  /\ served[1].kind = "post_raises"
  /\ served[2].kind = "object"
  /\ processed_data[1] = HeuristicFallback(Str(column[1]))
  /\ processed_data[2].title = PyStr(<<"T">>)

\* C8: every result separate returns holds three strings, whatever the
\* splitter answered.
C8_AllStrings ==
  pc = "returned" => AllStrings(result)

\* C9: no warning without a key; with a key, at least one warning whenever the
\* fallback result comes from a transport failure, a bad status, an unparsable
\* body, a missing title, prompt or output, or an integrity-gate rejection.
C9_Warnings ==
  /\ (pc = "returned" /\ ~api_key) => warnings = 0
  /\ (pc = "returned" /\ api_key /\ text # <<>>
        /\ (response.kind \in FailureKinds \/ MissingField \/ (StringResponse /\ BelowRetention)))
       => warnings >= 1

\* C10: with no splitter, separating prompt + "\n\n" + output of a non-empty
\* text's result gives that result again.
C10_FallbackIdempotent ==
  (pc = "returned" /\ ~api_key /\ text # <<>>) =>
    separate_prompt_output(FALSE, result.prompt.v \o <<NL, NL>> \o result.output.v, NoResponse)
      = [exc |-> "none", ret |-> result, warns |-> 0]

\* C10 witness: the output keeps a later blank line and the rejoined text is
\* not the text that was separated
C10_Witness ==
  /\ pc = "returned"
  /\ ~api_key
  /\ text # <<>>
  /\ HasBlankLine(result.output.v)
  /\ result.prompt.v \o <<NL, NL>> \o result.output.v # text

\* the call returned the splitter's own title, prompt and output
AcceptedResponse ==
  /\ response.kind = "object"
  /\ result = [title |-> response.title, prompt |-> response.prompt,
               output |-> response.output]

\* C11 as claimed: whenever the result is not an accepted splitter response,
\* the returned title is "Untitled Conversation".
C11_SentinelTitle ==
  (pc = "returned" /\ ~AcceptedResponse) =>
    result.title = PyStr(<<"Untitled Conversation">>)

\* C11 as amended: whenever the text is not empty and the result is not an
\* accepted splitter response, the returned title is "Untitled Conversation".
C11_SentinelTitleNonEmpty ==
  (pc = "returned" /\ text # <<>> /\ ~AcceptedResponse) =>
    result.title = PyStr(<<"Untitled Conversation">>)

\* C11 witness: a response with a title of its own was rejected by the gate
C11_Witness ==
  /\ pc = "returned"
  /\ text # <<>>
  /\ StringResponse
  /\ response.title = PyStr(<<"T">>)
  /\ ~AcceptedResponse
  /\ result.title = PyStr(<<"Untitled Conversation">>)
  /\ warnings = 1

\* C12: count_text_stats gives the number of maximal runs of non-whitespace
\* characters and the number of characters, whitespace included; "a a  a"
\* gives (3, 6) and "" gives (0, 0).
C12_Stats ==
  stats_ret.called =>
    /\ stats_ret.words = WordCount(stats_arg)
    /\ stats_ret.chars = Cardinality({i \in 1..Len(stats_arg) : IsSpace(stats_arg[i])})
                           + Cardinality({i \in 1..Len(stats_arg) : ~IsSpace(stats_arg[i])})
    /\ (stats_arg = <<"a", SP, "a", SP, SP, "a">> => stats_ret.words = 3 /\ stats_ret.chars = 6)
    /\ (stats_arg = <<>> => stats_ret.words = 0 /\ stats_ret.chars = 0)

\* C12 witness: the statistics of "a a  a" are (3, 6)
C12_Witness ==
  /\ stats_ret.called
  /\ stats_arg = <<"a", SP, "a", SP, SP, "a">>
  /\ stats_ret.words = 3
  /\ stats_ret.chars = 6

\* C13: every separate call eventually returns a result, also when the
\* splitter never responds to the request.
C13_EventuallyReturns == (pc = "request") ~> (pc = "returned")

\* C14: no step of a separate or process_column call, from its entry to its
\* return, changes the history log or the stored title, prompt and output; and
\* what a call returns is a function of its text, the key and its splitter
\* outcome alone, whatever calls, history appends and history clears came before.
C14_Stateless ==
  /\ [][pc' # "idle" => UNCHANGED <<history, st_title, st_prompt, st_output>>]_vars
  /\ [](pc = "returned" => result = separate_prompt_output(api_key, text, response).ret)
  /\ [](\A i \in 1..Len(processed_data) :
          processed_data[i] = separate_prompt_output(api_key, Str(column[i]), served[i]).ret)

\* C14 witness: a call returned while the log and the stored fields still hold
\* an earlier call's text and result
C14_Witness ==
  /\ pc = "returned"
  /\ caller \in {"button", "file"}
  /\ api_key
  /\ history # <<>>
  /\ st_prompt # PyStr(<<>>)
  /\ result.prompt # st_prompt
  /\ text # history[Len(history)]

\* the items of the column whose separate call has begun
EnteredItems ==
  1..(Len(processed_data) + IF pc \in {"request", "returned", "raised"} THEN 1 ELSE 0)

\* C15: one separate call makes at most one outbound call, and none when the
\* text is empty or no key is configured; process_column over n items makes at
\* most n outbound calls.
C15_AtMostOneCall ==
  /\ (caller # "batch" /\ pc \in {"request", "returned", "raised"}) =>
       /\ calls <= 1
       /\ (text = <<>> \/ ~api_key) => calls = 0
  /\ caller = "batch" =>
       /\ calls <= Len(column)
       /\ calls <= Cardinality({i \in EnteredItems : Str(column[i]) # <<>>})
       /\ ~api_key => calls = 0

\* C15 witness: a column of two items, the first empty, processed with a key:
\* one outbound call
C15_Witness ==
  /\ pc = "batch_done"
  /\ api_key
  /\ Len(column) = 2
  /\ Str(column[1]) = <<>>
  /\ calls = 1

\* s has no leading and no trailing whitespace
Trimmed(s) == s = <<>> \/ (~IsSpace(s[1]) /\ ~IsSpace(s[Len(s)]))

\* the fallback result keeps every word, trimmed, with no blank line in prompt
FallbackKeepsWords ==
  /\ WordCount(result.prompt.v) + WordCount(result.output.v) = WordCount(text)
  /\ Trimmed(result.prompt.v)
  /\ Trimmed(result.output.v)
  /\ ~HasBlankLine(result.prompt.v)

\* the integrity gate of analyze_with_llm lets the result through when the
\* splitter answers with it
PassesGate ==
  CheckParsed(text, ObjectResponse(result.title, result.prompt, result.output))
    = [exc |-> "none", ret |-> result, warns |-> 0]

\* C16: the fallback result keeps every word of the text, its prompt and
\* output are trimmed, its prompt holds no blank line, and so it satisfies the
\* retention condition that the gate imposes on splitter responses.
C16_FallbackPassesGate ==
  (pc = "returned" /\ ~api_key /\ text # <<>>) =>
    /\ FallbackKeepsWords
    /\ 10 * (WordCount(result.prompt.v) + WordCount(result.output.v)) >= 9 * WordCount(text)
    /\ PassesGate

====
